---- MODULE Spec2Model ----
(***************************************************************************)
(* A model of src/src/charm.py, the MAAS image mirror charm: the three     *)
(* event handlers (install, config-changed, start), the nginx site         *)
(* configuration, the cron entry parser, the bootstrap command runner and  *)
(* the crontab installer, together with the host state they act on.        *)
(*                                                                         *)
(* Text is modelled as sequences of one-character strings, so that         *)
(* str.strip, str.split('\n') and str.split(None, 5) are computed as       *)
(* Python computes them.  Every external command either exits zero or      *)
(* raises CalledProcessError; file operations may raise OSError.  Calls of  *)
(* the runtime (setting the status, set_ports) are taken not to fail.  A   *)
(* handler runs to its end before the next event is dispatched, and the    *)
(* configuration changes only between events.                              *)
(***************************************************************************)
EXTENDS Naturals, Sequences, FiniteSets

\* ------------------------------------------------------------------ bounds

\* The largest number of events dispatched to one charm instance.
MaxEvents == 3

\* The largest number of lines of a text given to the parser on its own.
MaxLines == 2

\* ------------------------------------------------------- program constants

\* maxsplit of line.split(None, 5)
MaxSplit == 5

\* len(parts) >= 6
MinParts == 6

\* ------------------------------------------------------------------- text

NL == "\n"
SP == " "

\* Python's str.isspace for the characters of the model.
IsSpace(c) == c \in {SP, NL, "\t"}

RECURSIVE LStrip(_)
LStrip(s) == IF s # <<>> /\ IsSpace(Head(s)) THEN LStrip(Tail(s)) ELSE s

RECURSIVE RStrip(_)
RStrip(s) ==
    IF s # <<>> /\ IsSpace(s[Len(s)]) THEN RStrip(SubSeq(s, 1, Len(s) - 1)) ELSE s

\* str.strip()
Strip(s) == RStrip(LStrip(s))

\* The characters of s before its first newline.
RECURSIVE TakeLine(_)
TakeLine(s) ==
    IF s = <<>> \/ Head(s) = NL THEN <<>> ELSE <<Head(s)>> \o TakeLine(Tail(s))

\* The characters of s before its first whitespace character.
RECURSIVE TakeWord(_)
TakeWord(s) ==
    IF s = <<>> \/ IsSpace(Head(s)) THEN <<>> ELSE <<Head(s)>> \o TakeWord(Tail(s))

\* str.split('\n'): the empty string splits to one empty line.
RECURSIVE SplitLines(_)
SplitLines(s) ==
    LET first == TakeLine(s)
    IN  IF Len(first) = Len(s) THEN <<first>>
        ELSE <<first>> \o SplitLines(SubSeq(s, Len(first) + 2, Len(s)))

\* str.split(None, maxsplit): runs of whitespace separate the fields, leading
\* whitespace is dropped, and after maxsplit fields the remainder is one
\* field, taken verbatim from its first non-space character on.
RECURSIVE SplitFields(_, _)
SplitFields(s, maxsplit) ==
    LET t == LStrip(s)
        w == TakeWord(t)
    IN  IF t = <<>> THEN <<>>
        ELSE IF maxsplit = 0 THEN <<t>>
        ELSE <<w>> \o SplitFields(SubSeq(t, Len(w) + 1, Len(t)), maxsplit - 1)

\* One iteration of the loop of _parse_cron_commands: what a line adds.
\* "skip" a blank or comment line, "warn" an invalid one, "cmd" a command.
LineKind(rawline) ==
    LET line == Strip(rawline)
    IN  IF line = <<>> \/ Head(line) = "#" THEN "skip"
        ELSE IF Len(SplitFields(line, MaxSplit)) >= MinParts THEN "cmd"
        ELSE "warn"

\* A faulty variant, for comparison: the command is the sixth token only.
LineCommandSixthToken(rawline) ==
    TakeWord(SplitFields(Strip(rawline), MaxSplit)[MinParts])

\* command = parts[5]
LineCommand(rawline) == SplitFields(Strip(rawline), MaxSplit)[MinParts]

RECURSIVE CommandsOf(_)
CommandsOf(lines) ==
    IF lines = <<>> THEN <<>>
    ELSE (IF LineKind(Head(lines)) = "cmd" THEN <<LineCommand(Head(lines))>> ELSE <<>>)
         \o CommandsOf(Tail(lines))

RECURSIVE WarningsOf(_)
WarningsOf(lines) ==
    IF lines = <<>> THEN 0
    ELSE (IF LineKind(Head(lines)) = "warn" THEN 1 ELSE 0) + WarningsOf(Tail(lines))

\* _parse_cron_commands: the commands returned.
ParseCronCommands(cron) == CommandsOf(SplitLines(Strip(cron)))

\* _parse_cron_commands: the number of warnings logged.
ParseCronWarnings(cron) == WarningsOf(SplitLines(Strip(cron)))

\* ------------------------------------------------- configuration values

\* The lines an operator writes: blank, comment, too few fields, and two
\* entries with six fields or more (one indented, one whose command holds
\* whitespace).
BlankLine == <<>>
CommentLine == <<"#", "a">>
ShortLine == <<"*", SP, "a">>
EntryA == <<SP, "*", SP, "*", SP, "*", SP, "*", SP, "*", SP, "a">>
EntryB == <<"*", SP, "*", SP, "*", SP, "*", SP, "*", SP, "b", SP, "c">>

ConfigLines == {BlankLine, CommentLine, ShortLine, EntryA, EntryB}

RECURSIVE JoinLines(_)
JoinLines(lines) ==
    IF lines = <<>> THEN <<>>
    ELSE IF Len(lines) = 1 THEN lines[1]
    ELSE lines[1] \o <<NL>> \o JoinLines(Tail(lines))

\* The values of the cron-jobs option that the events are run with:
\* the empty string; whitespace only; a comment and an invalid line, so no
\* command; one entry with blank lines around it; one entry and nothing
\* else; three entries with a comment and an invalid line between them.
CronEmpty == <<>>
CronBlank == JoinLines(<<BlankLine, BlankLine>>)
CronNoCommand == JoinLines(<<CommentLine, ShortLine>>)
CronPadded == JoinLines(<<BlankLine, EntryA, BlankLine>>)
CronSingle == EntryB
CronMixed == JoinLines(<<EntryB, CommentLine, EntryA, ShortLine, EntryB>>)

CronJobsValues ==
    {CronEmpty, CronBlank, CronNoCommand, CronPadded, CronSingle, CronMixed}

\* The lines the parser is given on its own: the ones above, and a line of
\* whitespace, an indented comment of six tokens, a line of exactly five
\* fields, an entry whose fields are separated by runs of blanks and tabs
\* and whose command holds a run of blanks, and an entry whose command
\* starts with "#".
WhiteLine == <<SP, "\t">>
CommentSix == <<SP, "#", SP, "*", SP, "*", SP, "*", SP, "*", SP, "a">>
FiveFields == <<"*", SP, "*", SP, "*", SP, "*", SP, "*", SP>>
EntryWide ==
    <<"*", SP, SP, "*", "\t", "*", SP, "*", SP, "*", "\t", SP, "b", SP, SP, "c", SP>>
EntryHash == <<"*", SP, "*", SP, "*", SP, "*", SP, "*", SP, "#">>

ParseLines ==
    ConfigLines \cup {WhiteLine, CommentSix, FiveFields, EntryWide, EntryHash}

\* The texts of at most MaxLines such lines, as lists of lines.
ParseLineLists == UNION {[1..n -> ParseLines] : n \in 0..MaxLines}

\* ------------------------------------------------------------------ state

VARIABLES
    cron_jobs,        \* config["cron-jobs"], a string
    bootstrap_sync,   \* config["bootstrap-sync"]
    status,           \* self.unit.status
    handler,          \* the event being handled, "none" between events
    pc,               \* the handler's position
    trace,            \* what the current handler run has done so far, in order
    exc,              \* the exception that ended the current run, "none" if none
    commands,         \* _run_bootstrap_sync: the parsed commands
    ran,              \* _run_bootstrap_sync: the commands attempted, with exits
    errors,           \* _run_bootstrap_sync: the failures logged
    warnings,         \* _parse_cron_commands: the warnings logged
    packages,         \* nginx and simplestreams are installed
    site_config,      \* /etc/nginx/sites-available/image-mirror is written
    default_enabled,  \* /etc/nginx/sites-enabled/default exists
    site_enabled,     \* what /etc/nginx/sites-enabled/image-mirror is
    temp_file,        \* the .cron file of the latest _configure_cron call
    crontab,          \* root's crontab
    crontab0,         \* root's crontab when the current handler run began
    blocked0,         \* whether the status was Blocked when the current run began
    nginx_running,    \* systemctl start nginx has succeeded
    nginx_enabled,    \* systemctl enable nginx has succeeded
    ports,            \* the ports this unit has declared open
    events,           \* the number of events dispatched so far
    installed         \* the install runs so far: "none", "failed" (none has
                      \* ended without failure), "ok" (one has)

config == <<cron_jobs, bootstrap_sync>>
run == <<handler, pc, trace, exc>>
runner == <<commands, ran, errors, warnings>>
site == <<site_config, default_enabled, site_enabled>>
cron == <<temp_file, crontab>>
service == <<nginx_running, nginx_enabled>>
vars == <<config, status, run, runner, packages, site, cron, crontab0, blocked0,
          service, ports, events, installed>>

\* OPEN_PORTS
OpenPorts == {80}

\* The statuses the handlers set; "Unknown" is the status before any is set.
Unknown == "Unknown"
MaintInstalling == "Maintenance: Installing packages"
MaintBootstrap == "Maintenance: Running bootstrap sync"
MaintComplete == "Maintenance: Installation complete"
MaintUpdating == "Maintenance: Updating configuration"
ActiveReady == "Active: Ready"
BlockedInstall == "Blocked: Installation failed"
BlockedConfig == "Blocked: Configuration failed"
BlockedStart == "Blocked: Failed to start nginx"

BlockedStatuses == {BlockedInstall, BlockedConfig, BlockedStart}
MaintenanceStatuses == {MaintInstalling, MaintBootstrap, MaintComplete, MaintUpdating}

\* The exceptions of the model.
CalledProcessError == "CalledProcessError"
OSError == "OSError"
FileExistsError == "FileExistsError"

\* A file of the host: absent, or present with its text.
NoFile == [exists |-> FALSE, text |-> <<>>]
File(t) == [exists |-> TRUE, text |-> t]

\* The entries of a trace: a command or file operation on the host, a call
\* of a method or of the runtime, a write of the unit's status.
Host(v) == [k |-> "host", v |-> v]
Call(v) == [k |-> "call", v |-> v]
Status(v) == [k |-> "status", v |-> v]

\* The states of /etc/nginx/sites-enabled/image-mirror: no entry, the
\* symlink to the site definition, a symlink whose target is missing, or a
\* file or a symlink to some other existing file.
SiteEnabledStates == {"absent", "link", "dangling", "other"}

\* Path.exists() of /etc/nginx/sites-enabled/image-mirror: it follows
\* symlinks, so a symlink whose target is missing does not exist.
SiteEnabledExists ==
    CASE site_enabled = "absent" -> FALSE
      [] site_enabled = "link" -> site_config
      [] site_enabled = "dangling" -> FALSE
      [] site_enabled = "other" -> TRUE

Init ==
    /\ cron_jobs \in CronJobsValues
    /\ bootstrap_sync \in BOOLEAN
    /\ status = Unknown
    /\ handler = "none"
    /\ pc = "idle"
    /\ trace = <<>>
    /\ exc = "none"
    /\ commands = <<>>
    /\ ran = <<>>
    /\ errors = 0
    /\ warnings = 0
    /\ packages = FALSE
    /\ site_config = FALSE
    /\ default_enabled \in BOOLEAN
    /\ site_enabled \in SiteEnabledStates
    /\ temp_file = NoFile
    /\ crontab = NoFile
    /\ crontab0 = NoFile
    /\ blocked0 = FALSE
    /\ nginx_running = FALSE
    /\ nginx_enabled = FALSE
    /\ ports = {}
    /\ events = 0
    /\ installed = "none"

\* ------------------------------------------------------- control flow

\* A faulty variant, for comparison: config-changed catches CalledProcessError only, as install does.
CatchesCalledProcessErrorOnly(h, e) == e = CalledProcessError

\* The except clause of each handler: what it catches.
Catches(h, e) ==
    CASE h = "install" -> e = CalledProcessError
      [] h = "config-changed" -> TRUE
      [] h = "start" -> e = CalledProcessError

\* The status an except clause sets.
BlockedOf(h) ==
    CASE h = "install" -> BlockedInstall
      [] h = "config-changed" -> BlockedConfig
      [] h = "start" -> BlockedStart

\* The run goes on at `next`, having done `did`.
Proceed(next, did) ==
    /\ pc' = next
    /\ trace' = trace \o did
    /\ UNCHANGED <<status, exc, handler, installed>>

\* Having done `did`, exception e is raised: the handler's except clause
\* sets the status if it catches e, and the run ends; an exception it does
\* not catch leaves the handler with the status as it was.
Raise(e, did) ==
    /\ pc' = "done"
    /\ exc' = e
    /\ status' = IF Catches(handler, e) THEN BlockedOf(handler) ELSE status
    /\ trace' = trace \o did \o
                (IF Catches(handler, e) THEN <<Status(BlockedOf(handler))>> ELSE <<>>)
    /\ installed' = IF handler = "install" /\ installed = "none" THEN "failed"
                    ELSE installed
    /\ UNCHANGED handler

\* An event is dispatched to its handler.
Dispatch(h) ==
    /\ pc = "idle"
    /\ events < MaxEvents
    /\ events' = events + 1
    /\ handler' = h
    /\ crontab0' = crontab
    /\ blocked0' = (status \in BlockedStatuses)
    /\ exc' = "none"
    /\ UNCHANGED installed

\* The handler has returned (or its exception has left it).
Return ==
    /\ pc = "done"
    /\ pc' = "idle"
    /\ handler' = "none"
    /\ trace' = <<>>
    /\ exc' = "none"
    /\ commands' = <<>>
    /\ ran' = <<>>
    /\ errors' = 0
    /\ warnings' = 0
    /\ crontab0' = NoFile
    /\ blocked0' = FALSE
    /\ UNCHANGED <<config, status, packages, site, cron, service, ports, events,
                   installed>>

\* The operator sets the configuration between two events.
SetConfig ==
    /\ pc = "idle"
    /\ \E c \in CronJobsValues, b \in BOOLEAN :
        /\ <<c, b>> # config
        /\ cron_jobs' = c
        /\ bootstrap_sync' = b
    /\ UNCHANGED <<status, run, runner, packages, site, cron, crontab0, blocked0,
                   service, ports, events, installed>>

\* ---------------------------------------------------------- _on_install

\* install: the handler sets its first status and goes on to apt-get update.
Install ==
    /\ Dispatch("install")
    /\ status' = MaintInstalling
    /\ trace' = <<Status(MaintInstalling)>>
    /\ pc' = "apt_update"
    /\ UNCHANGED <<config, runner, packages, site, cron, service, ports>>

\* A faulty variant, for comparison: apt-get update is tried a second time
\* when its first attempt exits non-zero.
AptUpdateRetry ==
    /\ pc = "apt_update"
    /\ \E ok \in BOOLEAN :
        IF ok THEN Proceed("apt_install", <<Host("apt-get update")>>)
        ELSE IF \E i \in 1..Len(trace) : trace[i] = Host("apt-get update")
             THEN Raise(CalledProcessError, <<Host("apt-get update")>>)
             ELSE Proceed("apt_update", <<Host("apt-get update")>>)
    /\ UNCHANGED <<config, runner, packages, site, cron, crontab0, blocked0, service,
                   ports, events>>

\* subprocess.check_call(["apt-get", "update"])
AptUpdate ==
    /\ pc = "apt_update"
    /\ \E ok \in BOOLEAN :
        IF ok THEN Proceed("apt_install", <<Host("apt-get update")>>)
        ELSE Raise(CalledProcessError, <<Host("apt-get update")>>)
    /\ UNCHANGED <<config, runner, packages, site, cron, crontab0, blocked0, service, ports,
                   events>>

\* subprocess.check_call(["apt-get", "install", "-y", "nginx", "simplestreams"])
AptInstall ==
    /\ pc = "apt_install"
    /\ \E ok \in BOOLEAN :
        IF ok
        THEN /\ packages' = TRUE
             /\ Proceed("write_site", <<Host("apt-get install"), Call("_configure_nginx")>>)
        ELSE /\ UNCHANGED packages
             /\ Raise(CalledProcessError, <<Host("apt-get install")>>)
    /\ UNCHANGED <<config, runner, site, cron, crontab0, blocked0, service, ports, events>>

\* ------------------------------------------------------ _configure_nginx

\* site_config_path.write_text(NGINX_SITE_CONFIG)
WriteSiteConfig ==
    /\ pc = "write_site"
    /\ \E ok \in BOOLEAN :
        IF ok
        THEN /\ site_config' = TRUE
             /\ Proceed("disable_default", <<Host("write site config")>>)
        ELSE /\ UNCHANGED site_config
             /\ Raise(OSError, <<Host("write site config")>>)
    /\ UNCHANGED <<config, runner, packages, default_enabled, site_enabled, cron,
                   crontab0, blocked0, service, ports, events>>

\* if default_enabled.exists(): default_enabled.unlink()
DisableDefault ==
    /\ pc = "disable_default"
    /\ IF default_enabled
       THEN \E ok \in BOOLEAN :
            IF ok
            THEN /\ default_enabled' = FALSE
                 /\ Proceed("enable_site", <<Host("unlink default site")>>)
            ELSE /\ UNCHANGED default_enabled
                 /\ Raise(OSError, <<Host("unlink default site")>>)
       ELSE /\ UNCHANGED default_enabled
            /\ Proceed("enable_site", <<>>)
    /\ UNCHANGED <<config, runner, packages, site_config, site_enabled, cron,
                   crontab0, blocked0, service, ports, events>>

\* The outcomes of site_enabled.symlink_to(site_config_path): the link is
\* made, or an OSError is raised; with an entry already at the path (which
\* exists() did not see), the OSError is a FileExistsError.
SymlinkOutcomes ==
    IF site_enabled = "absent" THEN {"ok", OSError} ELSE {FileExistsError}

\* if not site_enabled.exists(): site_enabled.symlink_to(site_config_path)
EnableSite ==
    /\ pc = "enable_site"
    /\ IF ~SiteEnabledExists
       THEN \E out \in SymlinkOutcomes :
            IF out = "ok"
            THEN /\ site_enabled' = "link"
                 /\ Proceed("reload", <<Host("symlink site")>>)
            ELSE /\ UNCHANGED site_enabled
                 /\ Raise(out, <<Host("symlink site")>>)
       ELSE /\ UNCHANGED site_enabled
            /\ Proceed("reload", <<>>)
    /\ UNCHANGED <<config, runner, packages, site_config, default_enabled, cron,
                   crontab0, blocked0, service, ports, events>>

\* subprocess.check_call(["systemctl", "reload", "nginx"])
ReloadNginx ==
    /\ pc = "reload"
    /\ \E ok \in BOOLEAN :
        IF ok THEN Proceed("bootstrap", <<Host("systemctl reload nginx")>>)
        ELSE Raise(CalledProcessError, <<Host("systemctl reload nginx")>>)
    /\ UNCHANGED <<config, runner, packages, site, cron, crontab0, blocked0, service, ports,
                   events>>

\* --------------------------------------------------- _run_bootstrap_sync

\* A faulty variant, for comparison: the bootstrap runs whatever bootstrap-sync says.
BootstrapWantedAlways == Strip(cron_jobs) # <<>>

\* if bootstrap_sync and cron_jobs: (cron_jobs is the stripped option)
BootstrapWanted == bootstrap_sync /\ Strip(cron_jobs) # <<>>

\* The handler's position after the bootstrap step has been decided: the
\* runner's loop if there are commands to run, else _configure_cron.
AfterBootstrapDecision(cmds) == IF cmds # <<>> THEN "run" ELSE "cron"

\* _on_install after _configure_nginx: decide whether to run the bootstrap
\* sync; if so set the status and parse the commands.
Bootstrap ==
    /\ pc = "bootstrap"
    /\ IF BootstrapWanted
       THEN LET cmds == ParseCronCommands(Strip(cron_jobs))
            IN  /\ status' = MaintBootstrap
                /\ commands' = cmds
                /\ warnings' = ParseCronWarnings(Strip(cron_jobs))
                /\ pc' = AfterBootstrapDecision(cmds)
                /\ trace' = trace \o <<Status(MaintBootstrap), Call("_run_bootstrap_sync")>>
       ELSE /\ pc' = "cron"
            /\ UNCHANGED <<status, commands, warnings, trace>>
    /\ UNCHANGED <<config, handler, exc, ran, errors, packages, site, cron, crontab0,
                   blocked0, service, ports, events, installed>>

\* A faulty variant, for comparison: the runner stops at the first command that exits non-zero.
AfterCommandAbort(ok, n) == IF ok /\ n < Len(commands) THEN "run" ELSE "cron"

\* The handler's position after a command has exited: the loop goes on to
\* the next command whatever the exit status, and to _configure_cron after
\* the last one.
AfterCommand(ok, n) == IF n < Len(commands) THEN "run" ELSE "cron"

\* One iteration of the loop of _run_bootstrap_sync:
\* subprocess.check_call(command, shell=True), its failure logged.
RunCommand ==
    /\ pc = "run"
    /\ Len(ran) < Len(commands)
    /\ \E ok \in BOOLEAN :
        /\ ran' = Append(ran, [command |-> commands[Len(ran) + 1], ok |-> ok])
        /\ errors' = IF ok THEN errors ELSE errors + 1
        /\ Proceed(AfterCommand(ok, Len(ran) + 1), <<Host("sh -c command")>>)
    /\ UNCHANGED <<config, commands, warnings, packages, site, cron, crontab0, blocked0,
                   service, ports, events>>

\* -------------------------------------------------------- _configure_cron

\* A faulty variant, for comparison: _configure_cron installs the file whatever cron-jobs is.
CronJobsEmptyNever == FALSE

\* if not cron_jobs: (cron_jobs is the stripped option)
CronJobsEmpty == Strip(cron_jobs) = <<>>

\* A faulty variant, for comparison: the file holds the parsed commands.
CronFileTextParsed == JoinLines(ParseCronCommands(cron_jobs)) \o <<NL>>

\* f.write(cron_jobs); f.write("\n")
CronFileText == Strip(cron_jobs) \o <<NL>>

\* The handler's position after _configure_cron has returned.
AfterCron(h) == IF h = "install" THEN "complete" ELSE "set_ports"

\* _configure_cron with no cron jobs configured: log and return.
ConfigureCronEmpty ==
    /\ pc = "cron"
    /\ CronJobsEmpty
    /\ Proceed(AfterCron(handler), <<Call("_configure_cron")>>)
    /\ UNCHANGED <<config, runner, packages, site, cron, crontab0, blocked0, service, ports,
                   events>>

\* with tempfile.NamedTemporaryFile(mode='w', delete=False, suffix='.cron'):
\* the file is created and written; or creating it fails; or it is created
\* and writing (flushing, closing) it fails, which leaves it on the host.
WriteTempFile ==
    /\ pc = "cron"
    /\ ~CronJobsEmpty
    /\ \E out \in {"ok", "create fails", "write fails"} :
        LET did == <<Call("_configure_cron"), Host("create temp file")>>
        IN  CASE out = "ok" ->
                   /\ temp_file' = File(CronFileText)
                   /\ Proceed("crontab", did)
              [] out = "create fails" ->
                   /\ temp_file' = NoFile
                   /\ Raise(OSError, did)
              [] out = "write fails" ->
                   /\ temp_file' = File(<<>>)
                   /\ Raise(OSError, did)
    /\ UNCHANGED <<config, runner, packages, site, crontab, crontab0, blocked0, service, ports,
                   events>>

\* A faulty variant, for comparison: the new entries are added to the crontab there is.
InstalledTableMerged(old, file) == File(old.text \o file.text)

\* crontab -u root <file>: root's crontab becomes the file's text, whatever
\* it was before.
InstalledTable(old, file) == File(file.text)

\* try: subprocess.check_call(["crontab", "-u", "root", temp_path])
\* finally: Path(temp_path).unlink(missing_ok=True)
InstallCrontab ==
    /\ pc = "crontab"
    /\ \E ok \in BOOLEAN :
        LET did == <<Host("crontab"), Host("unlink temp file")>>
        IN  /\ temp_file' = NoFile
            /\ IF ok
               THEN /\ crontab' = InstalledTable(crontab, temp_file)
                    /\ Proceed(AfterCron(handler), did)
               ELSE /\ UNCHANGED crontab
                    /\ Raise(CalledProcessError, did)
    /\ UNCHANGED <<config, runner, packages, site, crontab0, blocked0, service, ports, events>>

\* A faulty variant, for comparison: the install handler reports Active when it is done.
InstallFinalStatusActive == ActiveReady

\* self.unit.status = MaintenanceStatus("Installation complete")
InstallFinalStatus == MaintComplete

InstallComplete ==
    /\ pc = "complete"
    /\ status' = InstallFinalStatus
    /\ trace' = Append(trace, Status(InstallFinalStatus))
    /\ pc' = "done"
    /\ installed' = "ok"
    /\ UNCHANGED <<config, handler, exc, runner, packages, site, cron, crontab0, blocked0,
                   service, ports, events>>

\* ---------------------------------------------------- _on_config_changed

\* A faulty variant, for comparison: config-changed sets no status before it
\* calls _configure_cron.
ConfigChangedNoStatus ==
    /\ Dispatch("config-changed")
    /\ trace' = <<>>
    /\ pc' = "cron"
    /\ UNCHANGED <<config, status, runner, packages, site, cron, service, ports>>

\* A faulty variant, for comparison: config-changed goes through the
\* bootstrap step of install before it calls _configure_cron.
ConfigChangedBootstrap ==
    /\ Dispatch("config-changed")
    /\ status' = MaintUpdating
    /\ trace' = <<Status(MaintUpdating)>>
    /\ pc' = "bootstrap"
    /\ UNCHANGED <<config, runner, packages, site, cron, service, ports>>

\* config-changed: the handler sets its first status and calls _configure_cron.
ConfigChanged ==
    /\ Dispatch("config-changed")
    /\ status' = MaintUpdating
    /\ trace' = <<Status(MaintUpdating)>>
    /\ pc' = "cron"
    /\ UNCHANGED <<config, runner, packages, site, cron, service, ports>>

\* self.unit.set_ports(*OPEN_PORTS); self.unit.status = ActiveStatus("Ready")
SetPorts ==
    /\ pc = "set_ports"
    /\ ports' = OpenPorts
    /\ status' = ActiveReady
    /\ trace' = trace \o <<Call("set_ports"), Status(ActiveReady)>>
    /\ pc' = "done"
    /\ UNCHANGED <<config, handler, exc, runner, packages, site, cron, crontab0, blocked0,
                   service, events, installed>>

\* -------------------------------------------------------------- _on_start

\* start: the handler goes straight to systemctl start nginx.
Start ==
    /\ Dispatch("start")
    /\ trace' = <<>>
    /\ pc' = "svc_start"
    /\ UNCHANGED <<config, status, runner, packages, site, cron, service, ports>>

\* A faulty variant, for comparison: the exit status of systemctl start is
\* not checked (subprocess.call), so the handler goes on to enable.
SystemctlStartUnchecked ==
    /\ pc = "svc_start"
    /\ \E ok \in BOOLEAN :
        /\ nginx_running' = (nginx_running \/ ok)
        /\ Proceed("svc_enable", <<Host("systemctl start nginx")>>)
    /\ UNCHANGED <<config, runner, packages, site, cron, crontab0, blocked0, nginx_enabled,
                   ports, events>>

\* subprocess.check_call(["systemctl", "start", "nginx"])
SystemctlStart ==
    /\ pc = "svc_start"
    /\ \E ok \in BOOLEAN :
        IF ok
        THEN /\ nginx_running' = TRUE
             /\ Proceed("svc_enable", <<Host("systemctl start nginx")>>)
        ELSE /\ UNCHANGED nginx_running
             /\ Raise(CalledProcessError, <<Host("systemctl start nginx")>>)
    /\ UNCHANGED <<config, runner, packages, site, cron, crontab0, blocked0, nginx_enabled,
                   ports, events>>

\* subprocess.check_call(["systemctl", "enable", "nginx"]);
\* self.unit.status = ActiveStatus("Ready")
SystemctlEnable ==
    /\ pc = "svc_enable"
    /\ \E ok \in BOOLEAN :
        IF ok
        THEN /\ nginx_enabled' = TRUE
             /\ status' = ActiveReady
             /\ trace' = trace \o <<Host("systemctl enable nginx"), Status(ActiveReady)>>
             /\ pc' = "done"
             /\ UNCHANGED <<exc, handler, installed>>
        ELSE /\ UNCHANGED nginx_enabled
             /\ Raise(CalledProcessError, <<Host("systemctl enable nginx")>>)
    /\ UNCHANGED <<config, runner, packages, site, cron, crontab0, blocked0, nginx_running,
                   ports, events>>

\* ------------------------------------------------------------------ system

Next ==
    \/ Install
    \/ AptUpdate
    \/ AptInstall
    \/ WriteSiteConfig
    \/ DisableDefault
    \/ EnableSite
    \/ ReloadNginx
    \/ Bootstrap
    \/ RunCommand
    \/ ConfigureCronEmpty
    \/ WriteTempFile
    \/ InstallCrontab
    \/ InstallComplete
    \/ ConfigChanged
    \/ SetPorts
    \/ Start
    \/ SystemctlStart
    \/ SystemctlEnable
    \/ Return
    \/ SetConfig

Spec == Init /\ [][Next]_vars

TypeOK ==
    /\ cron_jobs \in CronJobsValues
    /\ bootstrap_sync \in BOOLEAN
    /\ status \in {Unknown, ActiveReady} \cup MaintenanceStatuses \cup BlockedStatuses
    /\ handler \in {"none", "install", "config-changed", "start"}
    /\ exc \in {"none", CalledProcessError, OSError, FileExistsError}
    /\ errors \in 0..Len(commands)
    /\ site_enabled \in SiteEnabledStates
    /\ ports \subseteq OpenPorts
    /\ events \in 0..MaxEvents
    /\ warnings \in 0..Len(SplitLines(cron_jobs))
    /\ blocked0 \in BOOLEAN
    /\ installed \in {"none", "failed", "ok"}

\* ----------------------------------------------------------- properties

\* The current run has done e.
Has(e) == \E i \in 1..Len(trace) : trace[i] = e

\* The steps of _on_install in program order; only the bootstrap commands
\* may repeat.
InstallRank(e) ==
    CASE e = Status(MaintInstalling) -> 0
      [] e = Host("apt-get update") -> 1
      [] e = Host("apt-get install") -> 2
      [] e = Call("_configure_nginx") -> 3
      [] e = Host("write site config") -> 4
      [] e = Host("unlink default site") -> 5
      [] e = Host("symlink site") -> 6
      [] e = Host("systemctl reload nginx") -> 7
      [] e = Status(MaintBootstrap) -> 8
      [] e = Call("_run_bootstrap_sync") -> 9
      [] e = Host("sh -c command") -> 10
      [] e = Call("_configure_cron") -> 11
      [] e = Host("create temp file") -> 12
      [] e = Host("crontab") -> 13
      [] e = Host("unlink temp file") -> 14
      [] OTHER -> 15

\* The steps no install run skips on its way to a later step.
InstallMandatory ==
    {Host("apt-get update"), Host("apt-get install"), Host("write site config"),
     Host("systemctl reload nginx"), Call("_configure_cron")}

\* The number of commands of `ran` that exited non-zero.
FailedCommands == Cardinality({i \in 1..Len(ran) : ~ran[i].ok})

\* C1: in every install run the steps happen in the order index refresh,
\* package install, site configuration, bootstrap commands, schedule
\* installation, none skipped on the way to a later one; no bootstrap
\* command follows the crontab installation; the status is never Active
\* during the run, and a run in which every host action succeeds ends with
\* the status Maintenance("Installation complete").
C1_InstallOrder ==
    handler = "install" =>
        /\ \A j \in 1..Len(trace) : \A i \in 1..(j - 1) :
            /\ InstallRank(trace[i]) <= InstallRank(trace[j])
            /\ InstallRank(trace[i]) = InstallRank(trace[j])
                   => trace[j] = Host("sh -c command")
        /\ \A j \in 1..Len(trace) : \A m \in InstallMandatory :
            (trace[j].k # "status" /\ InstallRank(m) < InstallRank(trace[j])) => Has(m)
        /\ status # ActiveReady
        /\ (pc = "done" /\ exc = "none" /\ errors = 0) => status = MaintComplete

\* C1 witness: an install run in which three bootstrap commands ran and
\* the crontab was installed has ended with no failure.
C1_Witness ==
    /\ handler = "install" /\ pc = "done" /\ exc = "none" /\ errors = 0
    /\ Len(ran) = 3
    /\ Has(Host("crontab"))
    /\ status = MaintComplete

\* C2 as stated: in an install run that has got to the schedule
\* installation, a bootstrap command was executed if and only if
\* bootstrap-sync is true and cron-jobs is non-empty.
C2_Original ==
    (handler = "install" /\ pc = "cron") =>
        ((ran # <<>>) <=> (bootstrap_sync /\ Strip(cron_jobs) # <<>>))

\* C2 amended: in an install run that has got to the schedule installation,
\* a bootstrap command was executed if and only if bootstrap-sync is true
\* and cron-jobs holds at least one entry the parser accepts; with
\* bootstrap-sync false or cron-jobs empty nothing was executed, no
\* bootstrap status was set and no error has occurred; only a failure keeps
\* a run from calling _configure_cron; and with bootstrap-sync false and
\* cron-jobs non-empty a run without failure ends with the crontab installed.
C2_BootstrapIff ==
    handler = "install" =>
        /\ pc = "cron" =>
            /\ (ran # <<>>) <=> (bootstrap_sync /\ ParseCronCommands(cron_jobs) # <<>>)
            /\ exc = "none"
            /\ status \notin BlockedStatuses
            /\ (~bootstrap_sync \/ Strip(cron_jobs) = <<>>) =>
                   /\ ran = <<>>
                   /\ ~Has(Status(MaintBootstrap))
                   /\ status = MaintInstalling
        /\ (~bootstrap_sync \/ Strip(cron_jobs) = <<>>) => ~Has(Host("sh -c command"))
        /\ (pc = "done" /\ exc = "none") => Has(Call("_configure_cron"))
        /\ (pc = "done" /\ exc = "none" /\ ~bootstrap_sync /\ Strip(cron_jobs) # <<>>) =>
               /\ Has(Host("crontab"))
               /\ crontab = File(Strip(cron_jobs) \o <<NL>>)

\* C2 witness: bootstrap-sync is true and cron-jobs is non-empty but holds
\* no valid entry; the install run has got to the schedule installation
\* with no command executed.
C2_Witness ==
    /\ handler = "install" /\ pc = "cron"
    /\ bootstrap_sync /\ cron_jobs = CronNoCommand
    /\ Has(Call("_run_bootstrap_sync"))
    /\ ran = <<>>

\* C3: the runner attempts the parsed commands one at a time in their
\* order, each once; it logs one failure per non-zero exit; no exit status
\* raises or blocks: when the runner is done every command has been
\* attempted, no exception is pending, the status is not Blocked and
\* _configure_cron is called next; a Blocked status at the end of such a
\* run comes from the crontab installation.
C3_RunnerTolerant ==
    handler = "install" =>
        /\ Len(ran) <= Len(commands)
        /\ \A i \in 1..Len(ran) : ran[i].command = commands[i]
        /\ Cardinality({i \in 1..Len(trace) : trace[i] = Host("sh -c command")}) = Len(ran)
        /\ errors = FailedCommands
        /\ pc = "run" => (exc = "none" /\ status = MaintBootstrap /\ Len(ran) < Len(commands))
        /\ pc = "cron" =>
            (Len(ran) = Len(commands) /\ exc = "none" /\ status \notin BlockedStatuses)
        /\ (pc = "done" /\ Has(Call("_run_bootstrap_sync"))) =>
            /\ Len(ran) = Len(commands)
            /\ Has(Call("_configure_cron"))
            /\ status \in BlockedStatuses => (exc = CalledProcessError /\ Has(Host("crontab")))

\* C3 witness: an install run has ended in which the commands exited
\* zero, non-zero, zero, and the crontab was installed afterwards.
C3_Witness ==
    /\ handler = "install" /\ pc = "done"
    /\ Len(ran) = 3 /\ ran[1].ok /\ ~ran[2].ok /\ ran[3].ok
    /\ errors = 1
    /\ Has(Host("crontab"))
    /\ status = MaintComplete

\* C4 as stated: an install run that ends on a failure of the package
\* steps or of a site configuration step has the status Blocked, and has
\* run no bootstrap command and not called _configure_cron.
C4_Claim ==
    (handler = "install" /\ pc = "done" /\ exc # "none" /\ ~Has(Call("_configure_cron"))) =>
        /\ status \in BlockedStatuses
        /\ ran = <<>>

\* C5: a config-changed run has the status Maintenance("Updating
\* configuration") until it ends; a run that ends on a failure has the
\* status Blocked and has neither declared the ports nor set Active; a run
\* that ends without failure has set the Maintenance status, called
\* _configure_cron, declared the ports and set Active("Ready"), in this
\* order.
C5_ConfigChanged ==
    handler = "config-changed" =>
        /\ trace[1] = Status(MaintUpdating)
        /\ pc # "done" =>
            (status = MaintUpdating /\ ~Has(Call("set_ports")) /\ exc = "none")
        /\ (pc = "done" /\ exc # "none") =>
            /\ status = BlockedConfig
            /\ trace[Len(trace)] = Status(BlockedConfig)
            /\ ~Has(Call("set_ports"))
            /\ ~Has(Status(ActiveReady))
        /\ (pc = "done" /\ exc = "none") =>
            /\ status = ActiveReady
            /\ ports = OpenPorts
            /\ trace[2] = Call("_configure_cron")
            /\ trace[Len(trace) - 1] = Call("set_ports")
            /\ trace[Len(trace)] = Status(ActiveReady)
            /\ Len(trace) > 3

\* C5 witness: a config-changed run has ended on an OSError (the temporary
\* file), with the status Blocked.
C5_Witness ==
    /\ handler = "config-changed" /\ pc = "done"
    /\ exc = OSError
    /\ status = BlockedConfig

\* _configure_cron has just returned to its caller without raising.
CronReturned == pc \in {"complete", "set_ports"}

\* C6 as stated: whenever _configure_cron has returned without failure,
\* root's crontab is derived from the current cron-jobs alone: it is the
\* current value, and with an empty cron-jobs it holds no entry.
C6_Original ==
    CronReturned =>
        IF Strip(cron_jobs) = <<>>
        THEN ~crontab.exists \/ Strip(crontab.text) = <<>>
        ELSE crontab = File(Strip(cron_jobs) \o <<NL>>)

\* C6 amended: whenever _configure_cron has returned without failure and
\* cron-jobs is non-empty, root's crontab is the current cron-jobs and
\* nothing else; with an empty cron-jobs the crontab is what it was when
\* the run began.
C6_Replaced ==
    CronReturned =>
        IF Strip(cron_jobs) = <<>>
        THEN crontab = crontab0
        ELSE crontab = File(Strip(cron_jobs) \o <<NL>>)

\* C6 witness: _configure_cron has returned having replaced an earlier,
\* different crontab.
C6_Witness ==
    /\ CronReturned
    /\ crontab0.exists /\ crontab.exists
    /\ crontab # crontab0
    /\ crontab = File(Strip(cron_jobs) \o <<NL>>)

\* C7: a config-changed run with an empty cron-jobs creates no temporary
\* file and does not invoke crontab, and ends with root's crontab and the
\* temporary file as they were, the ports declared and the status Active.
C7_EmptyNoop ==
    (handler = "config-changed" /\ Strip(cron_jobs) = <<>>) =>
        /\ ~Has(Host("create temp file"))
        /\ ~Has(Host("crontab"))
        /\ crontab = crontab0
        /\ exc = "none"
        /\ pc = "done" => (ports = OpenPorts /\ status = ActiveReady)

\* C7 witness: a config-changed run with an empty cron-jobs has ended with
\* an earlier crontab still installed.
C7_Witness ==
    /\ handler = "config-changed" /\ pc = "done"
    /\ cron_jobs = CronEmpty
    /\ crontab0.exists /\ crontab = crontab0
    /\ Has(Call("_configure_cron"))
    /\ status = ActiveReady

\* C8 as stated: the crontab an install run has installed is the cron-jobs
\* value as configured followed by a newline.
C8_Original ==
    (handler = "install" /\ pc = "done" /\ exc = "none" /\ Has(Host("crontab"))) =>
        crontab = File(cron_jobs \o <<NL>>)

\* C8 amended: root's crontab at the end of an install run is decided by
\* cron-jobs, the crontab before the run and whether the run failed, and
\* by nothing else (not bootstrap-sync, not the commands' exits): after a
\* run without failure with a non-empty cron-jobs it is cron-jobs with its
\* leading and trailing whitespace removed, followed by one newline;
\* otherwise it is the crontab from before the run.
C8_TableFromConfig ==
    (handler = "install" /\ pc = "done") =>
        crontab = IF exc = "none" /\ Strip(cron_jobs) # <<>>
                  THEN File(Strip(cron_jobs) \o <<NL>>)
                  ELSE crontab0

\* C8 witness: an install run whose bootstrap had a failing command has
\* installed a crontab that holds a comment and an invalid line.
C8_Witness ==
    /\ handler = "install" /\ pc = "done" /\ exc = "none"
    /\ bootstrap_sync /\ errors > 0
    /\ cron_jobs = CronMixed
    /\ crontab = File(CronMixed \o <<NL>>)

\* C9 as stated: once a _configure_cron call that created its temporary
\* file has returned or raised, the file is gone.
C9_Claim ==
    (Has(Host("create temp file")) /\ (CronReturned \/ pc = "done")) => ~temp_file.exists

\* C10 as stated: from every state of sites-enabled, when _configure_nginx
\* returns, the default site is disabled and the image-mirror site has its
\* entry in sites-enabled (a second call starts from such a state and finds
\* nothing to change); and creating that entry never fails because there
\* is one already, in whatever form.
C10_Claim ==
    /\ pc = "bootstrap" => (~default_enabled /\ site_enabled \in {"link", "other"})
    /\ exc # FileExistsError

\* C11: a start run does systemctl start, then systemctl enable only if the
\* start exited zero, then sets its one status: Active("Ready") if and only
\* if both exited zero (nginx is then running and enabled), Blocked
\* otherwise; and no step of a start run changes the packages, the site
\* configuration, root's crontab, the temporary file, the declared ports or
\* the configuration.
C11_Start ==
    /\ [](handler = "start" =>
            /\ pc = "done" =>
                /\ status = ActiveReady <=> exc = "none"
                /\ status # ActiveReady => status = BlockedStart
                /\ exc = "none" =>
                    /\ trace = <<Host("systemctl start nginx"),
                                 Host("systemctl enable nginx"), Status(ActiveReady)>>
                    /\ nginx_running /\ nginx_enabled
                /\ exc # "none" =>
                    /\ exc = CalledProcessError
                    /\ trace \in
                        {<<Host("systemctl start nginx"), Status(BlockedStart)>>,
                         <<Host("systemctl start nginx"), Host("systemctl enable nginx"),
                           Status(BlockedStart)>>}
            /\ Has(Host("systemctl enable nginx")) => nginx_running)
    /\ [][handler' = "start" => UNCHANGED <<packages, site, cron, ports, config>>]_vars

\* C11 witness: a start run in which systemctl start exited non-zero has
\* ended Blocked without attempting the enable, on a host with a crontab
\* installed and the ports declared.
C11_Witness ==
    /\ handler = "start" /\ pc = "done"
    /\ exc = CalledProcessError
    /\ trace = <<Host("systemctl start nginx"), Status(BlockedStart)>>
    /\ status = BlockedStart
    /\ crontab.exists /\ ports = OpenPorts

\* ------------------------------------------------ the parser on its own

\* _parse_cron_commands is called with a text of ParseLineLists; nothing
\* else of the charm has run.
InitParse ==
    /\ cron_jobs \in {JoinLines(ls) : ls \in ParseLineLists}
    /\ bootstrap_sync = FALSE
    /\ status = Unknown
    /\ handler = "none"
    /\ pc = "idle"
    /\ trace = <<>>
    /\ exc = "none"
    /\ commands = <<>>
    /\ ran = <<>>
    /\ errors = 0
    /\ warnings = 0
    /\ packages = FALSE
    /\ site_config = FALSE
    /\ default_enabled = FALSE
    /\ site_enabled = "absent"
    /\ temp_file = NoFile
    /\ crontab = NoFile
    /\ crontab0 = NoFile
    /\ blocked0 = FALSE
    /\ nginx_running = FALSE
    /\ nginx_enabled = FALSE
    /\ ports = {}
    /\ events = 0
    /\ installed = "none"

\* One call of _parse_cron_commands(cron_jobs): each call starts from an
\* empty list and logs its own warnings.
ParseCall ==
    /\ commands' = ParseCronCommands(cron_jobs)
    /\ warnings' = ParseCronWarnings(cron_jobs)
    /\ pc' = "done"
    /\ UNCHANGED <<config, status, handler, trace, exc, ran, errors, packages, site,
                   cron, crontab0, blocked0, service, ports, installed>>

\* The first call.
Parse ==
    /\ pc = "idle"
    /\ events' = 1
    /\ ParseCall

\* The same text parsed once more.
ParseAgain ==
    /\ pc = "done"
    /\ events = 1
    /\ events' = 2
    /\ ParseCall

NextParse == Parse \/ ParseAgain

SpecParse == InitParse /\ [][NextParse]_vars

\* ---------------------------------------------------------------- C12

\* The positions of a line that hold a character that is not whitespace,
\* and those where a token starts.
Inked(l) == {i \in 1..Len(l) : ~IsSpace(l[i])}
TokenStarts(l) == {i \in Inked(l) : i = 1 \/ IsSpace(l[i - 1])}

IsBlank(l) == Inked(l) = {}
IsComment(l) == ~IsBlank(l) /\ l[CHOOSE i \in Inked(l) : \A j \in Inked(l) : i <= j] = "#"
IsEntry(l) == ~IsBlank(l) /\ ~IsComment(l) /\ Cardinality(TokenStarts(l)) >= 6
IsInvalid(l) == ~IsBlank(l) /\ ~IsComment(l) /\ Cardinality(TokenStarts(l)) < 6

\* The sixth field: from the start of the sixth token to the last character
\* of the line that is not whitespace.
SixthField(l) ==
    LET from == CHOOSE i \in TokenStarts(l) :
                    Cardinality({j \in TokenStarts(l) : j < i}) = 5
        to == CHOOSE i \in Inked(l) : \A j \in Inked(l) : j <= i
    IN  SubSeq(l, from, to)

ExpectedCommands(ls) ==
    LET entries == SelectSeq(ls, IsEntry)
    IN  [i \in 1..Len(entries) |-> SixthField(entries[i])]

ExpectedWarnings(ls) == Len(SelectSeq(ls, IsInvalid))

\* Each text with what the parser is to make of it.
ParseCases ==
    {[text |-> JoinLines(ls),
      commands |-> ExpectedCommands(ls),
      warnings |-> ExpectedWarnings(ls),
      quiet |-> \A i \in 1..Len(ls) : IsBlank(ls[i]) \/ IsComment(ls[i])] :
        ls \in ParseLineLists}

\* C12: for every text of at most MaxLines lines (blank, comment, fewer than
\* six tokens, six tokens or more), the parser returns exactly the sixth
\* fields of the lines of six tokens or more, in order and with their inner
\* whitespace, and logs one warning for each line that is neither blank nor
\* a comment and has fewer than six tokens; a text of blank and comment
\* lines only, the empty text among them, gives no command and no warning;
\* a second call on the same text gives the same result.
C12_Parser ==
    pc = "done" =>
        \A c \in ParseCases :
            c.text = cron_jobs =>
                /\ commands = c.commands
                /\ warnings = c.warnings
                /\ c.quiet => (commands = <<>> /\ warnings = 0)
                /\ cron_jobs = <<>> => (commands = <<>> /\ warnings = 0)

\* The text of an entry with runs of whitespace and an invalid line has been
\* parsed twice: one command with its inner blanks, one warning.
C12_Witness ==
    /\ pc = "done"
    /\ events = 2
    /\ cron_jobs = JoinLines(<<EntryWide, FiveFields>>)
    /\ commands = <<<<"b", SP, SP, "c">>>>
    /\ warnings = 1

\* ---------------------------------------------------------------- C13

\* The status writes of a trace, and the value of the last of them.
StatusWrites(tr) == {i \in 1..Len(tr) : tr[i].k = "status"}
LastStatus(tr) ==
    tr[CHOOSE i \in StatusWrites(tr) : \A j \in StatusWrites(tr) : j <= i].v

\* The run has ended by a return of the handler, from its body or from its
\* except clause.
Returned ==
    /\ pc = "done"
    /\ exc = "none" \/ exc = CalledProcessError \/ handler = "config-changed"

\* C13 as stated: every handler writes the status first and last, so while
\* a handler runs the status is one that this run has written.
C13_Original ==
    /\ handler # "none" => (trace # <<>> /\ trace[1].k = "status")
    /\ handler # "none" => (StatusWrites(trace) # {} /\ status = LastStatus(trace))
    /\ pc = "done" => trace[Len(trace)].k = "status"

\* C13, amended: install and config-changed write the status first, and
\* while they run the status is the last one this run has written; start
\* writes the status only as its last step, and until then the status is
\* the one the earlier events have left; a run that returns, from the body
\* or from the except clause, has the status write as its last step; an
\* install run that an exception other than CalledProcessError has left has
\* written no status after the Maintenance of its steps.
C13_StatusWrites ==
    /\ [](handler \in {"install", "config-changed"} =>
            /\ trace # <<>> /\ trace[1].k = "status"
            /\ status = LastStatus(trace))
    /\ []((handler = "start" /\ pc # "done") => StatusWrites(trace) = {})
    /\ [][(handler' = "start" /\ pc' # "done") => status' = status]_vars
    /\ [](Returned =>
            /\ trace[Len(trace)].k = "status"
            /\ status = trace[Len(trace)].v
            /\ handler = "start" => StatusWrites(trace) = {Len(trace)})
    /\ []((pc = "done" /\ ~Returned) =>
            /\ handler = "install"
            /\ trace[Len(trace)].k # "status"
            /\ status \in {MaintInstalling, MaintBootstrap})

\* The start handler is between its two commands and the status is still
\* the one the install run has left.
C13_Witness ==
    /\ handler = "start"
    /\ pc = "svc_enable"
    /\ trace = <<Host("systemctl start nginx")>>
    /\ status = MaintComplete
    /\ installed = "ok"

\* ---------------------------------------------------------------- C14

\* The host actions that are commands: index refresh, package install, site
\* reload, bootstrap command, schedule install, service start and enable.
HostCommands ==
    {Host("apt-get update"), Host("apt-get install"), Host("systemctl reload nginx"),
     Host("sh -c command"), Host("crontab"), Host("systemctl start nginx"),
     Host("systemctl enable nginx")}

Count(tr, e) == Cardinality({i \in 1..Len(tr) : tr[i] = e})

\* Each host command at most once in the run, each bootstrap command once
\* for its place in the parsed list.
AtMostOnce ==
    /\ \A e \in HostCommands \ {Host("sh -c command")} : Count(trace, e) <= 1
    /\ Count(trace, Host("sh -c command")) = Len(ran)
    /\ Len(ran) <= Len(commands)
    /\ \A i \in 1..Len(ran) : ran[i].command = commands[i]

\* A run that began with the status Blocked and in which nothing failed
\* ends Active (config-changed, start) or Maintenance (install).
Recovers ==
    (pc = "done" /\ blocked0 /\ exc = "none" /\ FailedCommands = 0) =>
        status = IF handler = "install" THEN MaintComplete ELSE ActiveReady

\* C14 as stated: at most once each, Blocked is left by the next run without
\* failure, and after a failure, that of a bootstrap command included, no
\* further host action is invoked in the run.
C14_Original ==
    /\ AtMostOnce
    /\ Recovers
    /\ exc # "none" => pc = "done"
    /\ \A i \in 1..Len(ran) : ~ran[i].ok => (i = Len(ran) /\ ~Has(Host("crontab")))

\* C14, amended: within one run each host command is invoked at most once;
\* the failure that ends a run is the last host command of the run, only
\* the removal of the temporary file and the status write follow it, and
\* nothing is tried again before the next event; a bootstrap command that
\* exits non-zero does not end the run, the commands after it and the
\* schedule installation are still invoked; a run that began with the
\* status Blocked and in which every host action succeeded ends Active
\* (config-changed, start) or Maintenance (install).
C14_NoRetry ==
    /\ [](AtMostOnce /\ Recovers)
    /\ [](exc # "none" => pc = "done")
    /\ [][(exc = "none" /\ exc' # "none") =>
            LET did == SubSeq(trace', Len(trace) + 1, Len(trace'))
                cmds == {i \in 1..Len(did) : did[i] \in HostCommands}
            IN  /\ Cardinality(cmds) <= 1
                /\ \A i \in cmds : \A j \in (i + 1)..Len(did) :
                        did[j] \in {Host("unlink temp file")} \cup
                                   {Status(b) : b \in BlockedStatuses}
                /\ ran' = ran]_vars
    /\ [][exc # "none" => (handler' = "none" /\ trace' = <<>>)]_vars
    /\ []((pc = "done" /\ exc = "none" /\ handler = "install") =>
            /\ Len(ran) = Len(commands)
            /\ Strip(cron_jobs) # <<>> => Has(Host("crontab")))

\* After an install that ended Blocked, a config-changed run has installed
\* the schedule with no failure and has ended Active.
C14_Witness ==
    /\ handler = "config-changed"
    /\ pc = "done"
    /\ blocked0
    /\ exc = "none"
    /\ Has(Host("crontab"))
    /\ status = ActiveReady
    /\ installed = "failed"

\* ---------------------------------------------------------------- C15

\* What only the install handler does: the package manager, the site
\* configuration, the bootstrap commands.
InstallOnly ==
    {Host("apt-get update"), Host("apt-get install"), Call("_configure_nginx"),
     Host("write site config"), Host("unlink default site"), Host("symlink site"),
     Host("systemctl reload nginx"), Call("_run_bootstrap_sync"), Host("sh -c command")}

\* C15: a config-changed or start run parses and executes no command of
\* cron-jobs, whatever bootstrap-sync and cron-jobs are, runs no apt-get
\* and writes nothing of the site configuration; none of its steps changes
\* the packages or the site files.
C15_InstallOnly ==
    /\ [](handler \in {"config-changed", "start"} =>
            /\ ran = <<>> /\ commands = <<>> /\ errors = 0
            /\ \A i \in 1..Len(trace) : trace[i] \notin InstallOnly)
    /\ [][handler' \in {"config-changed", "start"} => UNCHANGED <<packages, site>>]_vars

\* cron-jobs was empty when install ran and holds entries now, with
\* bootstrap-sync true: config-changed has installed the schedule and has
\* run none of its commands.
C15_Witness ==
    /\ handler = "config-changed"
    /\ pc = "done"
    /\ exc = "none"
    /\ installed = "ok"
    /\ bootstrap_sync
    /\ ParseCronCommands(cron_jobs) # <<>>
    /\ ~crontab0.exists
    /\ crontab.exists
    /\ ran = <<>>

\* ---------------------------------------------------------------- C16

\* C16: whenever the status is Active("Ready"), an install run has ended
\* without failure before; stated for the histories in which install has
\* run, so that the status after a failed install is what is looked at.
C16_Claim ==
    (status = ActiveReady /\ installed # "none") => installed = "ok"

====
